---- MODULE Spec2Model ----
(***************************************************************************)
(* Model of app/services/qa_generator.py (class QAGenerator): the          *)
(* text-to-flashcard pipeline run by process_pdf, and clean_text called on *)
(* its own; of upload_pdf of app/api/routes/pdf_routes.py, run by          *)
(* concurrent requests; of register of app/api/routes/auth_routes.py with  *)
(* create_user of app/api/services/user_service.py.                        *)
(*                                                                         *)
(* A Python str is modelled as a sequence of characters, each character a  *)
(* TLA+ string.  Cyrillic letters of the source's literals are written     *)
(* with Latin letters, one letter for one letter, so that every length the *)
(* code compares is the length the code sees.  Characters with no ASCII    *)
(* form are written as named tokens ("bullet", "copy", ...).               *)
(***************************************************************************)
EXTENDS Integers, Sequences, FiniteSets, TLC

VARIABLES pc, doc, max_cards, chunks, extracted, splitCalls, idx,
          flashcards, synthCalls, result, memo,
          clean_arg, clean_out,
          pdf_files, action_history, uploads,
          users, register_response

pipelineVars == <<pc, doc, max_cards, chunks, extracted, splitCalls, idx,
                  flashcards, synthCalls, result, memo>>

cleanVars == <<clean_arg, clean_out>>

uploadVars == <<pdf_files, action_history, uploads>>

registerVars == <<users, register_response>>

vars == <<pipelineVars, cleanVars, uploadVars, registerVars>>

\* the variables a step of process_pdf leaves alone
nonPipelineVars == <<cleanVars, uploadVars, registerVars>>

\* the variables a call of clean_text leaves alone
nonCleanVars == <<pipelineVars, uploadVars, registerVars>>

\* the variables a step of upload_pdf leaves alone
nonUploadVars == <<pipelineVars, cleanVars, registerVars>>

\* the variables a call of register leaves alone
nonRegisterVars == <<pipelineVars, cleanVars, uploadVars>>

(***************************************************************************)
(* Characters.                                                             *)
(***************************************************************************)
Letters == <<"a","b","c","d","e","f","g","h","i","j","k","l","m",
             "n","o","p","q","r","s","t","u","v","w","x","y","z">>

Capitals == <<"A","B","C","D","E","F","G","H","I","J","K","L","M",
              "N","O","P","Q","R","S","T","U","V","W","X","Y","Z">>

Digits == {"0","1","2","3","4","5","6","7","8","9"}

\* str.isupper() of one character
IsUpper(c) == \E i \in DOMAIN Capitals : Capitals[i] = c

\* str.lower() of one character
LowerChar(c) ==
    IF IsUpper(c)
    THEN Letters[CHOOSE i \in DOMAIN Capitals : Capitals[i] = c]
    ELSE c

\* str.lower()
Lower(s) == [i \in 1..Len(s) |-> LowerChar(s[i])]

\* \s of the re module and the separators of str.split()
Whitespace == {" ", "\n", "\t", "\r", "\f", "nbsp"}

IsSpace(c) == c \in Whitespace

\* \w of the re module: letters, digits, underscore
IsWordChar(c) ==
    \/ c \in Digits
    \/ c = "_"
    \/ \E i \in DOMAIN Letters : Letters[i] = c \/ Capitals[i] = c

\* the characters whose unicodedata.category starts with 'C'; "bel" stands
\* for U+0007
ControlChars == {"\n", "\t", "\r", "\f", "bel"}

\* the character class of clean_text's first re.sub; "bullet", "raquo",
\* "laquo", "bdquo", "ndash", "mdash" stand for the non-ASCII members
RemovedPunct == {">", "~", "<", "bullet", "raquo", "laquo", "bdquo", "\"",
                 "[", "]", "{", "}", "(", ")", "_", "-", "ndash", "mdash"}

\* [.!?] of the sentence-splitting patterns
IsTerminal(c) == c \in {".", "!", "?"}

(***************************************************************************)
(* Sequence helpers.                                                       *)
(***************************************************************************)
\* the least member of a non-empty set of integers
MinOf(S) == CHOOSE x \in S : \A y \in S : x <= y

\* Python's s[a-1:b] for 1-based inclusive a..b, empty when b < a
Slice(s, a, b) == IF b < a THEN <<>> ELSE SubSeq(s, a, b)

\* Python's s[:n] for n >= 0
Prefix(s, n) == Slice(s, 1, IF n < Len(s) THEN n ELSE Len(s))

\* the characters of s at the indices Keep accepts, in order
FilterIdx(s, Keep(_)) ==
    LET kept == SelectSeq([i \in 1..Len(s) |-> i], Keep)
    IN  [k \in 1..Len(kept) |-> s[kept[k]]]

\* str.strip()
Strip(s) ==
    LET solid == {i \in 1..Len(s) : ~IsSpace(s[i])}
    IN  IF solid = {} THEN <<>>
        ELSE Slice(s, MinOf(solid), CHOOSE x \in solid : \A y \in solid : y <= x)

\* the least index >= from at which pat occurs in s, 0 when there is none
Find(s, pat, from) ==
    LET hits == {i \in from..(Len(s) - Len(pat) + 1) :
                    \A j \in 1..Len(pat) : s[i + j - 1] = pat[j]}
    IN  IF hits = {} THEN 0 ELSE MinOf(hits)

\* `pat in s`
Contains(s, pat) == Find(s, pat, 1) > 0

RECURSIVE Join(_, _)
\* sep.join(parts)
Join(parts, sep) ==
    IF Len(parts) = 0 THEN <<>>
    ELSE IF Len(parts) = 1 THEN parts[1]
    ELSE parts[1] \o sep \o Join(Tail(parts), sep)

RECURSIVE SplitWords(_)
\* str.split() with no argument: the maximal runs of non-whitespace
SplitWords(s) ==
    LET solid == {i \in 1..Len(s) : ~IsSpace(s[i])}
    IN  IF solid = {} THEN <<>>
        ELSE LET a == MinOf(solid)
                 gaps == {i \in a..Len(s) : IsSpace(s[i])}
                 b == IF gaps = {} THEN Len(s) ELSE MinOf(gaps) - 1
             IN  <<Slice(s, a, b)>> \o SplitWords(Slice(s, b + 1, Len(s)))

RECURSIVE SplitOn(_, _)
\* str.split(c) for a one-character separator c: empty parts are kept
SplitOn(s, c) ==
    LET hits == {i \in 1..Len(s) : s[i] = c}
    IN  IF hits = {} THEN <<s>>
        ELSE <<Slice(s, 1, MinOf(hits) - 1)>>
                 \o SplitOn(Slice(s, MinOf(hits) + 1, Len(s)), c)

(***************************************************************************)
(* clean_text                                                              *)
(***************************************************************************)
\* re.sub(r'\s+', ' ', text).strip()
CollapseSpaces(s) ==
    LET t == [i \in 1..Len(s) |-> IF IsSpace(s[i]) THEN " " ELSE s[i]]
        u == FilterIdx(t, LAMBDA i : t[i] # " " \/ (i > 1 /\ t[i - 1] # " "))
    IN  IF Len(u) > 0 /\ u[Len(u)] = " " THEN Slice(u, 1, Len(u) - 1) ELSE u

\* clean_text collapsing the whitespace before it removes the punctuation
clean_text_collapse_first(text) ==
    IF Len(text) = 0 THEN <<>>
    ELSE LET t1 == SelectSeq(text, LAMBDA ch : ch \notin ControlChars \/ ch \in {"\n", "\t"})
             t2 == CollapseSpaces(t1)
         IN  SelectSeq(t2, LAMBDA ch : ch \notin RemovedPunct)

clean_text(text) ==
    IF Len(text) = 0 THEN <<>>
    ELSE LET t1 == SelectSeq(text, LAMBDA ch : ch \notin ControlChars \/ ch \in {"\n", "\t"})
             t2 == SelectSeq(t1, LAMBDA ch : ch \notin RemovedPunct)
         IN  CollapseSpaces(t2)

(***************************************************************************)
(* _split_into_chunks                                                      *)
(***************************************************************************)
MinSentenceChars == 5

MinChunkWords == 12

MinChunkChars == 50

\* the last index of the run of [.!?] that holds index i
TerminalRunEnd(s, i) ==
    LET after == {j \in i..Len(s) : ~IsTerminal(s[j])}
    IN  IF after = {} THEN Len(s) ELSE MinOf(after) - 1

\* the last index of the run of whitespace that starts at index i
SpaceRunEnd(s, i) ==
    LET after == {j \in i..Len(s) : ~IsSpace(s[j])}
    IN  IF after = {} THEN Len(s) ELSE MinOf(after) - 1

RECURSIVE SplitSentencesSpaced(_)
\* re.split(r'[.!?]+\s+', text)
SplitSentencesSpaced(s) ==
    LET starts == {i \in 1..Len(s) :
                     /\ IsTerminal(s[i])
                     /\ TerminalRunEnd(s, i) < Len(s)
                     /\ IsSpace(s[TerminalRunEnd(s, i) + 1])}
    IN  IF starts = {} THEN <<s>>
        ELSE LET a == MinOf(starts)
                 b == SpaceRunEnd(s, TerminalRunEnd(s, a) + 1)
             IN  <<Slice(s, 1, a - 1)>> \o SplitSentencesSpaced(Slice(s, b + 1, Len(s)))

RECURSIVE CombineSentences(_, _, _)
\* the loop over sentences and the flush of the remainder (lines 110-123)
CombineSentences(sentences, current, combined) ==
    IF Len(sentences) = 0
    THEN IF Len(Strip(current)) > 0 THEN Append(combined, Strip(current)) ELSE combined
    ELSE LET sent == Strip(Head(sentences))
             grown == current \o sent \o <<".", " ">>
         IN  IF Len(sent) = 0 \/ Len(sent) < MinSentenceChars
             THEN CombineSentences(Tail(sentences), current, combined)
             ELSE IF Len(SplitWords(grown)) >= MinChunkWords
             THEN CombineSentences(Tail(sentences), <<>>, Append(combined, Strip(grown)))
             ELSE CombineSentences(Tail(sentences), grown, combined)

\* one chunk dict (lines 128-132)
MakeChunk(chunk_text) ==
    [text |-> chunk_text, page |-> 0, word_count |-> Len(SplitWords(chunk_text))]

\* the segmenter without the length test of line 127
_split_into_chunks_unfiltered(text) ==
    LET combined == CombineSentences(SplitSentencesSpaced(text), <<>>, <<>>)
    IN  [k \in 1..Len(combined) |-> MakeChunk(combined[k])]

_split_into_chunks(text) ==
    LET combined == CombineSentences(SplitSentencesSpaced(text), <<>>, <<>>)
        kept == SelectSeq(combined, LAMBDA chunk_text : Len(chunk_text) > MinChunkChars)
    IN  [k \in 1..Len(kept) |-> MakeChunk(kept[k])]

(***************************************************************************)
(* extract_meaningful_text                                                 *)
(***************************************************************************)
MinPageChars == 100

MinParagraphChars == 50

StrColab == <<"C","o","l","a","b">>

StrColabLower == <<"c","o","l","a","b">>

StrIpynb == <<"i","p","y","n","b">>

StrHttp == <<"h","t","t","p">>

StrSchemeSep == <<":","/","/">>

\* the first index after i that is not whitespace (Len+1 when there is none)
SkipSpaces(s, i) ==
    LET solid == {j \in i..Len(s) : ~IsSpace(s[j])}
    IN  IF solid = {} THEN Len(s) + 1 ELSE MinOf(solid)

AllDigits(s, a, b) == b <= Len(s) /\ \A j \in a..b : s[j] \in Digits

NoNewline(s, a, b) == \A j \in a..b : j \in 1..Len(s) => s[j] # "\n"

\* re.sub(r'^\d{2}\.\d{2}\.\d{4}.*?Colab\s*', '', text)
StripDateBanner(s) ==
    LET dated == /\ Len(s) >= 10
                 /\ AllDigits(s, 1, 2) /\ s[3] = "."
                 /\ AllDigits(s, 4, 5) /\ s[6] = "."
                 /\ AllDigits(s, 7, 10)
        k == IF dated THEN Find(s, StrColab, 11) ELSE 0
    IN  IF k > 0 /\ NoNewline(s, 11, k - 1)
        THEN Slice(s, SkipSpaces(s, k + Len(StrColab)), Len(s))
        ELSE s

\* where the match of https?://[^\s]+ that starts at i ends, 0 for no match
UrlEnd(s, i) ==
    LET p == i + Len(StrHttp)
        q == IF p <= Len(s) /\ s[p] = "s" /\ Find(s, StrSchemeSep, p + 1) = p + 1
             THEN p + 1 + Len(StrSchemeSep)
             ELSE IF Find(s, StrSchemeSep, p) = p
             THEN p + Len(StrSchemeSep)
             ELSE 0
    IN  IF Find(s, StrHttp, i) = i /\ q > 0 /\ q <= Len(s) /\ ~IsSpace(s[q])
        THEN LET gaps == {j \in q..Len(s) : IsSpace(s[j])}
             IN  IF gaps = {} THEN Len(s) ELSE MinOf(gaps) - 1
        ELSE 0

RECURSIVE RemoveUrls(_)
\* re.sub(r'https?://[^\s]+', '', text)
RemoveUrls(s) ==
    LET starts == {i \in 1..Len(s) : UrlEnd(s, i) > 0}
    IN  IF starts = {} THEN s
        ELSE Slice(s, 1, MinOf(starts) - 1)
                 \o RemoveUrls(Slice(s, UrlEnd(s, MinOf(starts)) + 1, Len(s)))

\* where the match of \d{4}.*?ipynb.*?Colab (IGNORECASE) that starts at i
\* ends, 0 for no match
NotebookBannerEnd(s, i) ==
    LET low == Lower(s)
        a == IF AllDigits(s, i, i + 3) THEN Find(low, StrIpynb, i + 4) ELSE 0
        b == IF a > 0 THEN Find(low, StrColabLower, a + Len(StrIpynb)) ELSE 0
    IN  IF b > 0 /\ NoNewline(s, i + 4, b - 1) THEN b + Len(StrColabLower) - 1 ELSE 0

RECURSIVE RemoveNotebookBanners(_)
\* re.sub(r'\d{4}.*?ipynb.*?Colab', '', text, flags=re.IGNORECASE)
RemoveNotebookBanners(s) ==
    LET starts == {i \in 1..Len(s) : NotebookBannerEnd(s, i) > 0}
    IN  IF starts = {} THEN s
        ELSE Slice(s, 1, MinOf(starts) - 1)
                 \o RemoveNotebookBanners(
                        Slice(s, NotebookBannerEnd(s, MinOf(starts)) + 1, Len(s)))

\* the paragraphs of one page (lines 68-81): none for a page without text or
\* with a cleaned text under 100 characters
PageParagraphs(raw_text) ==
    LET text == clean_text(raw_text)
        stripped == RemoveNotebookBanners(RemoveUrls(StripDateBanner(text)))
        parts == SplitOn(stripped, "\n")
        long == SelectSeq(parts, LAMBDA p : Len(Strip(p)) > MinParagraphChars)
    IN  IF Len(raw_text) = 0 \/ Len(text) < MinPageChars THEN <<>>
        ELSE [k \in 1..Len(long) |-> Strip(long[k])]

\* the list's members, in order, of a list of lists
RECURSIVE Flatten(_)
Flatten(lists) ==
    IF Len(lists) = 0 THEN <<>> ELSE Head(lists) \o Flatten(Tail(lists))

\* the filter words of lines 89-91; "copy" and "reg" stand for U+00A9, U+00AE
NoiseMarkers == {StrIpynb, StrColabLower, StrHttp, <<"copy">>, <<"reg">>}

IsNoise(c) == \E bad \in NoiseMarkers : Contains(Lower(c.text), bad)

(***************************************************************************)
(* generate_qa_pair_rut5 and create_quality_fallback.  A returned dict is  *)
(* the one-element sequence <<dict>>, a returned None the empty sequence.  *)
(***************************************************************************)
MaxContextChars == 500

MinContextChars == 60

MinSentenceWords == 8

MinKeyWordChars == 3

MinKeyWords == 5

MinQuestionChars == 15

MinAnswerChars == 50

ContextPrefixChars == 150

FallbackMinSentenceChars == 50

FallbackMinWords == 7

FallbackMinAnswerChars == 40

FallbackContextPrefixChars == 120

\* "Объясните, что такое " (21 characters)
QuestionPrefix == <<"O","b","y","a","s","n","i","t","e",","," ","c","t","o"," ",
                    "t","a","k","o","e"," ">>

\* "Объясните, что произойдёт, если " (32 characters)
FallbackQuestionPrefix == <<"O","b","y","a","s","n","i","t","e",","," ","c","t","o"," ",
                            "p","r","o","i","z","o","i","d","e","t",","," ",
                            "e","s","l","i"," ">>

\* ['где', 'когда', 'какой', 'какая', 'какие', 'это', 'эта']
QuestionWords == {<<"g","d","e">>, <<"k","o","g","d","a">>, <<"k","a","k","o","i">>,
                  <<"k","a","k","a","y">>, <<"k","a","k","i","e">>,
                  <<"e","t","o">>, <<"e","t","a">>}

\* re.sub(r'\b\d{1,3}\b', '', text): a run of one to three digits with no
\* word character on either side is removed
RemoveShortNumbers(s) ==
    LET runStart(i) ==
            LET before == {j \in 1..i : s[j] \notin Digits}
            IN  IF before = {} THEN 1 ELSE (CHOOSE x \in before : \A y \in before : y <= x) + 1
        runEnd(i) ==
            LET after == {j \in i..Len(s) : s[j] \notin Digits}
            IN  IF after = {} THEN Len(s) ELSE MinOf(after) - 1
        removed(i) ==
            /\ s[i] \in Digits
            /\ runEnd(i) - runStart(i) + 1 <= 3
            /\ (runStart(i) = 1 \/ ~IsWordChar(s[runStart(i) - 1]))
            /\ (runEnd(i) = Len(s) \/ ~IsWordChar(s[runEnd(i) + 1]))
    IN  FilterIdx(s, LAMBDA i : ~removed(i))

RECURSIVE SplitSentences(_)
\* re.split(r'[.!?]+', text)
SplitSentences(s) ==
    LET starts == {i \in 1..Len(s) : IsTerminal(s[i])}
    IN  IF starts = {} THEN <<s>>
        ELSE <<Slice(s, 1, MinOf(starts) - 1)>>
                 \o SplitSentences(Slice(s, TerminalRunEnd(s, MinOf(starts)) + 1, Len(s)))

\* [s.strip() for s in re.split(r'[.!?]+', text)]
StrippedSentences(s) ==
    LET parts == SplitSentences(s)
    IN  [k \in 1..Len(parts) |-> Strip(parts[k])]

\* the test without the answer's length
PairAcceptedAnyLength(question, answer, key_term) ==
    /\ Len(question) > MinQuestionChars
    /\ Contains(Lower(answer), key_term)

\* the test of lines 175-177
PairAccepted(question, answer, key_term) ==
    /\ Len(question) > MinQuestionChars
    /\ Len(answer) > MinAnswerChars
    /\ Contains(Lower(answer), key_term)

generate_qa_pair_rut5(context) ==
    LET cleaned == clean_text(Prefix(context, MaxContextChars))
        context_clean == CollapseSpaces(RemoveShortNumbers(cleaned))
        long_sentences == SelectSeq(StrippedSentences(context_clean),
                                    LAMBDA t : Len(SplitWords(t)) >= MinSentenceWords)
        sentence == long_sentences[1]
        words == SelectSeq(SplitWords(sentence), LAMBDA w : Len(w) > MinKeyWordChars)
        important_words ==
            LET picked == SelectSeq(words, LAMBDA w :
                              IsUpper(w[1]) /\ Lower(w) \notin QuestionWords)
            IN  [k \in 1..Len(picked) |-> Lower(picked[k])]
        key_term == important_words[1]
        question == QuestionPrefix \o key_term \o <<"?">>
        answer == sentence
    IN  IF Len(context_clean) < MinContextChars THEN <<>>
        ELSE IF Len(long_sentences) = 0 THEN <<>>
        ELSE IF Len(words) < MinKeyWords THEN <<>>
        ELSE IF Len(important_words) = 0 THEN <<>>
        ELSE IF PairAccepted(question, answer, key_term)
        THEN <<[question |-> question, answer |-> answer,
                context |-> Prefix(context_clean, ContextPrefixChars)]>>
        ELSE <<>>

create_quality_fallback(context) ==
    LET context_clean == clean_text(Prefix(context, MaxContextChars))
        sentences == SelectSeq(StrippedSentences(context_clean),
                               LAMBDA t : Len(t) > FallbackMinSentenceChars)
        sentence == sentences[1]
        words == SplitWords(sentence)
        topic == Lower(Join(Prefix(words, 2), <<" ">>))
        question == FallbackQuestionPrefix \o topic \o <<"?">>
        answer == sentence
    IN  IF Len(sentences) = 0 THEN <<>>
        ELSE IF Len(words) < FallbackMinWords THEN <<>>
        ELSE IF Len(answer) > FallbackMinAnswerChars
        THEN <<[question |-> question, answer |-> answer,
                context |-> Prefix(context_clean, FallbackContextPrefixChars)]>>
        ELSE <<>>

(***************************************************************************)
(* The documents process_pdf is called with.  A document is what           *)
(* pdfplumber makes of the file: it cannot be opened, or it has pages; a   *)
(* page's extract_text raises, or returns a text (empty for None).         *)
(***************************************************************************)
MaxPages == 2

MaxCardsArg == 3

Rep(c, n) == [i \in 1..n |-> c]

\* n words of k letters "a" each
PlainWords(n, k) == [i \in 1..n |-> Rep("a", k)]

Sentence(words) == Join(words, <<" ">>)

\* 11 words, 61 characters, no capitalised word of more than 3 letters
SentA == Sentence(<<<<"V">>>> \o PlainWords(10, 5))

\* 13 words, 66 characters, opens with a capitalised term
SentL == Sentence(<<<<"P","y","t","h","o","n">>>> \o PlainWords(12, 4))

\* 15 words, 76 characters, holds the token "import" and a number
SentI == Sentence(<<<<"M","o","d","u","l","e">>, <<"i","m","p","o","r","t">>,
                    <<"4","2">>>> \o PlainWords(12, 4))

\* 6 words, 53 characters
SentX == Sentence(PlainWords(6, 8))

\* 8 words, 30 characters, opens with a capitalised term
SentS == Sentence(<<<<"D","a","t","a">>>> \o PlainWords(4, 4) \o PlainWords(3, 1))

\* 13 words, opens with the export tool's name
SentN == Sentence(<<StrColab>> \o PlainWords(12, 4))

Dot == <<".", " ">>

DateBanner == <<"1","2",".","0","3",".","2","0","2","4"," ","n","b",".",
                "i","p","y","n","b"," ","C","o","l","a","b"," ">>

NotebookBanner == <<"2","0","2","4"," ","n","b",".","I","p","y","n","b"," ",
                    "c","o","l","a","b"," ">>

Url == <<"h","t","t","p","s",":","/","/","x",".","y","/","z"," ">>

PageTexts == {
    <<>>,
    SentX \o <<".">>,
    SentA \o Dot \o SentL \o Dot \o SentA \o Dot \o SentI \o <<".">>,
    SentA \o <<"!", "\n">> \o SentI \o <<".">>,
    SentL \o <<".", "\n", "\n", "bullet", " ">> \o SentI \o <<"?">>,
    SentX \o Dot \o SentX \o <<".">>,
    SentL \o Dot \o SentX \o <<".">>,
    SentL \o Dot \o SentA \o <<".">>,
    SentS \o Dot \o SentA \o Dot \o SentL \o <<".">>,
    DateBanner \o SentL \o Dot \o Url \o SentI \o <<".">>,
    SentL \o Dot \o NotebookBanner \o SentA \o <<".">>,
    SentN \o Dot \o SentL \o <<".">>,
    SentA \o Dot \o SentL \o Dot \o SentS \o <<".">> }

Pages == [raises : {FALSE}, text : PageTexts] \cup {[raises |-> TRUE, text |-> <<>>]}

Documents ==
    {[unreadable |-> TRUE, pages |-> <<>>]}
    \cup {[unreadable |-> FALSE, pages |-> ps] :
             ps \in UNION {[1..n -> Pages] : n \in 0..MaxPages}}

\* the chunks of one page (lines 83-86)
PageChunks(raw_text) ==
    LET paragraphs == PageParagraphs(raw_text)
    IN  Flatten([k \in 1..Len(paragraphs) |-> _split_into_chunks(paragraphs[k])])

\* the calls of _split_into_chunks made for one page, each with its argument
\* and its return value
PageSplitCalls(raw_text) ==
    LET paragraphs == PageParagraphs(raw_text)
    IN  [k \in 1..Len(paragraphs) |->
            [para |-> paragraphs[k], out |-> _split_into_chunks(paragraphs[k])]]

(***************************************************************************)
(* The functions of a text are pure.  memo holds their values on the texts *)
(* of the documents, computed once: memo.chunks and memo.calls on the page *)
(* texts, the others on the texts of the chunks.                           *)
(***************************************************************************)
PageChunksOf(t) == memo.chunks[t]

PageSplitCallsOf(t) == memo.calls[t]

IsNoiseOf(t) == memo.noise[t]

\* len(t.split()) of a chunk text
WordCountOf(t) == memo.words[t]

generate_qa_pair_rut5_of(t) == memo.rut5[t]

create_quality_fallback_of(t) == memo.fallback[t]

\* the texts of the chunks of the pages, given the pages' chunks
ChunkTexts(pageChunks) ==
    UNION {{pageChunks[t][k].text : k \in 1..Len(pageChunks[t])} : t \in DOMAIN pageChunks}

\* the pages the loop of line 67 gets through: all of them, or those before
\* the first page whose extract_text raises
PagesRead(d) ==
    LET raising == {k \in 1..Len(d.pages) : d.pages[k].raises}
    IN  IF d.unreadable THEN <<>>
        ELSE IF raising = {} THEN d.pages
        ELSE Slice(d.pages, 1, MinOf(raising) - 1)

\* whether the try block of lines 63-94 ends in the except clause
ExtractionRaises(d) == d.unreadable \/ \E k \in 1..Len(d.pages) : d.pages[k].raises

\* the list `chunks` at the moment the try block is left
GatheredChunks(d) ==
    LET pages == PagesRead(d)
    IN  Flatten([k \in 1..Len(pages) |-> PageChunksOf(pages[k].text)])

\* the except clause returning the chunks gathered before the exception
extract_meaningful_text_partial(d) ==
    SelectSeq(GatheredChunks(d), LAMBDA c : ~IsNoiseOf(c.text))

extract_meaningful_text(d) ==
    IF ExtractionRaises(d) THEN <<>>
    ELSE SelectSeq(GatheredChunks(d), LAMBDA c : ~IsNoiseOf(c.text))

\* the calls of _split_into_chunks made by extract_meaningful_text, each with
\* its argument and its return value
SplitCallsOf(d) ==
    LET pages == PagesRead(d)
    IN  Flatten([k \in 1..Len(pages) |-> PageSplitCallsOf(pages[k].text)])

(***************************************************************************)
(* process_pdf: the ranking, the loop and the flashcards.                  *)
(***************************************************************************)
TargetWords == 25

Abs(n) == IF n < 0 THEN -n ELSE n

\* the key of line 236
SortKey(c) == Abs(c.word_count - TargetWords)

\* an insertion before the elements of equal key: a sort that is not stable
InsertByKeyBeforeEqual(sorted, c) ==
    LET notLess == {k \in 1..Len(sorted) : SortKey(sorted[k]) >= SortKey(c)}
        at == IF notLess = {} THEN Len(sorted) + 1 ELSE MinOf(notLess)
    IN  Slice(sorted, 1, at - 1) \o <<c>> \o Slice(sorted, at, Len(sorted))

\* where list.sort puts an element among the already sorted ones: after
\* every element whose key is not greater (the sort is stable)
InsertByKey(sorted, c) ==
    LET greater == {k \in 1..Len(sorted) : SortKey(sorted[k]) > SortKey(c)}
        at == IF greater = {} THEN Len(sorted) + 1 ELSE MinOf(greater)
    IN  Slice(sorted, 1, at - 1) \o <<c>> \o Slice(sorted, at, Len(sorted))

RECURSIVE SortChunks(_)
\* chunks.sort(key=lambda x: abs(x['word_count'] - 25))
SortChunks(cs) ==
    IF Len(cs) = 0 THEN <<>>
    ELSE InsertByKey(SortChunks(Slice(cs, 1, Len(cs) - 1)), cs[Len(cs)])

\* the break of line 240 taken one flashcard late
BreaksLate(cards, mc) == Len(cards) > mc

\* the test of line 240
Breaks(cards, mc) == Len(cards) >= mc

\* chunks[:max_cards * 2] for max_cards >= 0
Candidates(cs, mc) == Prefix(cs, mc * 2)

\* the loop header with max_cards = 0 read as "no limit"
IteratesZeroUnlimited(cs, cards, mc, i) ==
    IF mc = 0 THEN i <= Len(cs)
    ELSE i <= Len(Candidates(cs, mc)) /\ ~(Len(cards) >= mc)

\* whether the loop of lines 239-241 runs its body for the i-th candidate
Iterates(cs, cards, mc, i) == i <= Len(Candidates(cs, mc)) /\ ~Breaks(cards, mc)

\* the id counted from 0
NextIdZeroBased(cards) == Len(cards)

\* len(flashcards) + 1
NextId(cards) == Len(cards) + 1

RECURSIVE Decimal(_)
\* str(n) for n >= 0
Decimal(n) ==
    LET digit(k) == <<"0","1","2","3","4","5","6","7","8","9">>[k + 1]
    IN  IF n < 10 THEN <<digit(n)>> ELSE Decimal(n \div 10) \o <<digit(n % 10)>>

\* f"Page {chunk['page']}"
SourceLabel(c) == <<"P","a","g","e"," ">> \o Decimal(c.page)

\* the flashcard dict of lines 246-252 and 257-263
MakeFlashcard(cards, qa, c) ==
    [id |-> NextId(cards), question |-> qa.question, answer |-> qa.answer,
     context |-> qa.context, source |-> SourceLabel(c)]

\* the concurrent requests of upload_pdf
MaxUploads == 2

Requests == 1..MaxUploads

(***************************************************************************)
(* The state machine: one call of process_pdf on a constructed             *)
(* QAGenerator.  pc is the caller's position in process_pdf; extracted is  *)
(* the list extract_meaningful_text returned, chunks the same list object  *)
(* (sorted in place at line 236); splitCalls and synthCalls record the     *)
(* calls made so far of _split_into_chunks and of the two synthesizers.    *)
(***************************************************************************)
Init ==
    /\ pc = "idle"
    /\ doc = [unreadable |-> FALSE, pages |-> <<>>]
    /\ max_cards = 0
    /\ chunks = <<>>
    /\ extracted = <<>>
    /\ splitCalls = <<>>
    /\ idx = 0
    /\ flashcards = <<>>
    /\ synthCalls = <<>>
    /\ result = <<>>
    /\ \E pageChunks \in {[t \in PageTexts |-> PageChunks(t)]} :
          \E texts \in {ChunkTexts(pageChunks)} :
              memo = [chunks |-> pageChunks,
                      calls |-> [t \in PageTexts |-> PageSplitCalls(t)],
                      noise |-> [t \in texts |-> IsNoise([text |-> t])],
                      words |-> [t \in texts |-> Len(SplitWords(t))],
                      rut5 |-> [t \in texts |-> generate_qa_pair_rut5(t)],
                      fallback |-> [t \in texts |-> create_quality_fallback(t)]]
    /\ clean_arg = [none |-> TRUE, text |-> <<>>]
    /\ clean_out = <<>>
    /\ pdf_files = <<>>
    /\ action_history = <<>>
    /\ uploads = [r \in Requests |-> [pc |-> "idle", user_id |-> 0, filename |-> <<>>, status |-> 0]]
    /\ users = <<>>
    /\ register_response = [email |-> "", status |-> 0]

\* process_pdf(file_path, max_cards) is called (line 224)
process_pdf ==
    /\ pc = "idle"
    /\ \E d \in Documents, mc \in 0..MaxCardsArg :
          /\ doc' = d
          /\ max_cards' = mc
    /\ pc' = "extract"
    /\ UNCHANGED <<chunks, extracted, splitCalls, idx, flashcards, synthCalls, result, memo, nonPipelineVars>>

\* line 228
ExtractMeaningfulText ==
    /\ pc = "extract"
    /\ chunks' = extract_meaningful_text(doc)
    /\ extracted' = chunks'
    /\ splitCalls' = SplitCallsOf(doc)
    /\ pc' = "extracted"
    /\ UNCHANGED <<doc, max_cards, idx, flashcards, synthCalls, result, memo, nonPipelineVars>>

\* lines 230-232
ReturnNoChunks ==
    /\ pc = "extracted"
    /\ Len(chunks) = 0
    /\ result' = <<>>
    /\ pc' = "done"
    /\ UNCHANGED <<doc, max_cards, chunks, extracted, splitCalls, idx, flashcards, synthCalls, memo, nonPipelineVars>>

\* lines 236-237
RankChunks ==
    /\ pc = "extracted"
    /\ Len(chunks) > 0
    /\ chunks' = SortChunks(chunks)
    /\ flashcards' = <<>>
    /\ idx' = 1
    /\ pc' = "loop"
    /\ UNCHANGED <<doc, max_cards, extracted, splitCalls, synthCalls, result, memo, nonPipelineVars>>

\* lines 239-253: the next candidate goes to generate_qa_pair_rut5
PrimarySynthesis ==
    /\ pc = "loop"
    /\ Iterates(chunks, flashcards, max_cards, idx)
    /\ LET chunk == chunks[idx]
           qa_pair == generate_qa_pair_rut5_of(chunk.text)
       IN  /\ synthCalls' = Append(synthCalls,
                  [fn |-> "generate_qa_pair_rut5", arg |-> chunk.text,
                   cards |-> Len(flashcards), out |-> qa_pair])
           /\ IF Len(qa_pair) > 0
              THEN /\ flashcards' = Append(flashcards, MakeFlashcard(flashcards, qa_pair[1], chunk))
                   /\ idx' = idx + 1
                   /\ pc' = "loop"
              ELSE /\ pc' = "fallback"
                   /\ UNCHANGED <<flashcards, idx>>
    /\ UNCHANGED <<doc, max_cards, chunks, extracted, splitCalls, result, memo, nonPipelineVars>>

\* lines 255-265: create_quality_fallback, whose result is subscripted
\* without a test; on None line 259 raises TypeError out of process_pdf
FallbackSynthesis ==
    /\ pc = "fallback"
    /\ LET chunk == chunks[idx]
           fallback_qa == create_quality_fallback_of(chunk.text)
       IN  /\ synthCalls' = Append(synthCalls,
                  [fn |-> "create_quality_fallback", arg |-> chunk.text,
                   cards |-> Len(flashcards), out |-> fallback_qa])
           /\ IF Len(fallback_qa) > 0
              THEN /\ flashcards' = Append(flashcards, MakeFlashcard(flashcards, fallback_qa[1], chunk))
                   /\ idx' = idx + 1
                   /\ pc' = "loop"
              ELSE /\ pc' = "raised"
                   /\ UNCHANGED <<flashcards, idx>>
    /\ UNCHANGED <<doc, max_cards, chunks, extracted, splitCalls, result, memo, nonPipelineVars>>

\* the loop ends (slice exhausted, or the break of line 241); line 268
ReturnFlashcards ==
    /\ pc = "loop"
    /\ ~Iterates(chunks, flashcards, max_cards, idx)
    /\ result' = flashcards
    /\ pc' = "done"
    /\ UNCHANGED <<doc, max_cards, chunks, extracted, splitCalls, idx, flashcards, synthCalls, memo, nonPipelineVars>>

Next ==
    \/ process_pdf
    \/ ExtractMeaningfulText
    \/ ReturnNoChunks
    \/ RankChunks
    \/ PrimarySynthesis
    \/ FallbackSynthesis
    \/ ReturnFlashcards

Spec == Init /\ [][Next]_vars

(***************************************************************************)
(* clean_text called on its own: on an argument, then on its own result.   *)
(* clean_arg is the first argument (none: the argument is None), clean_out *)
(* the values returned so far.                                             *)
(***************************************************************************)
MaxTextLen == 4

\* a letter, the whitespace kinds (plain, kept control, non-control), a
\* removed control character, a removed punctuation mark
CleanAlphabet == {"a", " ", "\n", "nbsp", "bel", "-"}

CleanTexts == UNION {[1..n -> CleanAlphabet] : n \in 0..MaxTextLen}

CleanArgs == {[none |-> TRUE, text |-> <<>>]} \cup [none : {FALSE}, text : CleanTexts]

\* clean_text(arg): None is falsy at line 29, as the empty string is
CallCleanText ==
    /\ Len(clean_out) = 0
    /\ \E arg \in CleanArgs :
          /\ clean_arg' = arg
          /\ clean_out' = <<IF arg.none THEN <<>> ELSE clean_text(arg.text)>>
    /\ UNCHANGED nonCleanVars

\* clean_text(clean_text(arg))
CallCleanTextAgain ==
    /\ Len(clean_out) = 1
    /\ clean_out' = Append(clean_out, clean_text(clean_out[1]))
    /\ UNCHANGED <<clean_arg, nonCleanVars>>

NextCleanText ==
    \/ CallCleanText
    \/ CallCleanTextAgain

SpecCleanText == Init /\ [][NextCleanText]_vars

(***************************************************************************)
(* upload_pdf (pdf_routes.py lines 51-135), run by concurrent requests.    *)
(* pdf_files and action_history are the committed rows of the two tables,  *)
(* in insertion order.  uploads[r] is request r: where it is (pc), the     *)
(* authenticated user and the file name it came with, and the HTTP status  *)
(* it was answered with (0: not answered yet).  A request runs without     *)
(* interruption up to `await file.read()` (line 93), where other requests  *)
(* may run, and without interruption from there to its response.           *)
(***************************************************************************)
UserIds == {1, 2}

StrPdfSuffix == <<".", "p", "d", "f">>

\* the file names requests come with: none, not a PDF, two PDFs
Filenames == {<<>>, <<"a", ".", "t", "x", "t">>, <<"a", ".", "p", "d", "f">>,
              <<"b", ".", "P", "D", "F">>}

\* str.endswith
EndsWith(s, suffix) ==
    /\ Len(s) >= Len(suffix)
    /\ \A j \in 1..Len(suffix) : s[Len(s) - Len(suffix) + j] = suffix[j]

\* the query of lines 77-80: is there a row with this name and this user
ExistingFile(files, filename, user_id) ==
    \E k \in 1..Len(files) : files[k].filename = filename /\ files[k].user_id = user_id

\* the outcomes of the commit of line 107: the row is stored; or, when the
\* table (declared in app/models/pdf_files.py) rejects a second row of the
\* same name and user, the commit raises
CommitOutcomes(files, filename, user_id) ==
    IF ExistingFile(files, filename, user_id) THEN {"stored", "raised"} ELSE {"stored"}

\* lines 59-93: the request is validated, the table is queried, the target
\* file is opened and the coroutine suspends at `await file.read()`
upload_pdf(r) ==
    /\ uploads[r].pc = "idle"
    /\ \E u \in UserIds, f \in Filenames :
          LET rejected == \/ Len(f) = 0
                          \/ ~EndsWith(Lower(f), StrPdfSuffix)
                          \/ ExistingFile(pdf_files, f, u)
          IN  uploads' = [uploads EXCEPT ![r] =
                  [pc |-> IF rejected THEN "done" ELSE "reading",
                   user_id |-> u, filename |-> f,
                   status |-> IF rejected THEN 400 ELSE 0]]
    /\ UNCHANGED <<pdf_files, action_history, nonUploadVars>>

\* lines 93-127: file.read() has returned; the PDFFile row is added and
\* committed, then the ActionHistory row; an exception of the commit is
\* answered with 500 after the rollback (lines 132-135)
upload_pdf_resume(r) ==
    /\ uploads[r].pc = "reading"
    /\ LET u == uploads[r].user_id
           f == uploads[r].filename
       IN  \E outcome \in CommitOutcomes(pdf_files, f, u) :
              IF outcome = "stored"
              THEN /\ pdf_files' = Append(pdf_files,
                                          [id |-> Len(pdf_files) + 1, filename |-> f, user_id |-> u])
                   /\ action_history' = Append(action_history,
                          [action |-> "upload_pdf", filename |-> f, user_id |-> u])
                   /\ uploads' = [uploads EXCEPT ![r].pc = "done", ![r].status = 200]
              ELSE /\ uploads' = [uploads EXCEPT ![r].pc = "done", ![r].status = 500]
                   /\ UNCHANGED <<pdf_files, action_history>>
    /\ UNCHANGED nonUploadVars

NextUpload ==
    \/ \E r \in Requests : upload_pdf(r)
    \/ \E r \in Requests : upload_pdf_resume(r)

SpecUpload == Init /\ [][NextUpload]_vars

(***************************************************************************)
(* register (auth_routes.py lines 11-32) with create_user (user_service.py *)
(* lines 10-35).  users is the committed rows of the user table, in        *)
(* insertion order; register_response is the last request's email and the  *)
(* HTTP status it was answered with (0: no request yet).                   *)
(***************************************************************************)
Emails == {"a@x.io", "b@x.io", "c@x.io", "d@x.io"}

\* get_user_by_email (user_service.py lines 7-8): the row or None
get_user_by_email(db, email) ==
    LET hits == {k \in 1..Len(db) : db[k].email = email}
    IN  IF hits = {} THEN <<>> ELSE <<db[MinOf(hits)]>>

\* create_user: the table afterwards and the value returned (None: <<>>)
create_user(db, email) ==
    IF Len(get_user_by_email(db, email)) > 0
    THEN [db |-> db, user |-> <<>>]
    ELSE LET db_user == [user_id |-> Len(db) + 1, email |-> email]
         IN  [db |-> Append(db, db_user), user |-> <<db_user>>]

\* the status register answers with, given what create_user returned: the
\* HTTPException(400) of line 18 is raised inside the try of line 14 and is
\* an Exception, so the handler of line 27 catches it and raises
\* HTTPException(500) in its place
RegisterStatus(user) ==
    LET raisedInTry == IF Len(user) = 0 THEN 400 ELSE 0
    IN  IF raisedInTry # 0 THEN 500 ELSE 200

register ==
    \E email \in Emails :
        LET created == create_user(users, email)
        IN  /\ users' = created.db
            /\ register_response' = [email |-> email, status |-> RegisterStatus(created.user)]
            /\ UNCHANGED nonRegisterVars

NextRegister == register

SpecRegister == Init /\ [][NextRegister]_vars

(***************************************************************************)
(* Properties.                                                             *)
(***************************************************************************)
Range(f) == {f[k] : k \in DOMAIN f}

Started == pc # "idle"

\* C1: whenever process_pdf returns a list, the list has at most max_cards
\* flashcards and their ids, in list order, are 1, 2, ..., k; the same holds
\* of the list being built
C1_AtMostMaxCardsWithIds1ToK ==
    /\ Len(flashcards) <= max_cards
    /\ \A k \in 1..Len(flashcards) : flashcards[k].id = k
    /\ pc = "done" =>
          /\ Len(result) <= max_cards
          /\ \A k \in 1..Len(result) : result[k].id = k

\* process_pdf returned max_cards >= 2 flashcards although more chunks ranked
C1_Witness ==
    /\ pc = "done"
    /\ max_cards >= 2
    /\ Len(result) = max_cards
    /\ Len(chunks) > max_cards

\* C2: when both synthesizers yield nothing for a candidate, no flashcard is
\* appended and the loop goes on with the next candidate; process_pdf does
\* not raise
C2_FailedChunkIsSkipped ==
    [][(pc = "fallback" /\ Len(create_quality_fallback_of(chunks[idx].text)) = 0)
          => (pc' = "loop" /\ idx' = idx + 1 /\ flashcards' = flashcards)]_vars

\* C3 as stated: every chunk _split_into_chunks emits, the flushed remainder
\* included, has at least 12 words and more than 50 characters
C3_EveryChunkHasMinWordsAndChars ==
    \A k \in 1..Len(splitCalls) : \A c \in Range(splitCalls[k].out) :
        /\ Len(SplitWords(c.text)) >= 12
        /\ Len(c.text) > 50

\* C3 amended: every chunk _split_into_chunks emits has more than 50
\* characters, and every emitted chunk but the last of a call (the remainder
\* flushed after the loop) has at least 12 words
C3_ChunksBeforeRemainderHaveMinWords ==
    \A k \in 1..Len(splitCalls) :
        LET out == splitCalls[k].out
        IN  \A j \in 1..Len(out) :
                /\ Len(out[j].text) > 50
                /\ j < Len(out) => Len(SplitWords(out[j].text)) >= 12

\* a call of _split_into_chunks emitted a full chunk and then a remainder of
\* fewer than 12 words
C3_Witness ==
    \E k \in 1..Len(splitCalls) :
        LET out == splitCalls[k].out
        IN  /\ Len(out) >= 2
            /\ Len(SplitWords(out[Len(out)].text)) < 12
            /\ Len(SplitWords(out[1].text)) >= 12

StrImport == <<"i","m","p","o","r","t">>

IsFallbackCall(c) == c.fn = "create_quality_fallback"

IsPrimaryCall(c) == c.fn = "generate_qa_pair_rut5"

\* the first sentence of the cleaned text with more than 50 characters
FirstQualifyingSentence(text) ==
    SelectSeq(StrippedSentences(clean_text(text)), LAMBDA t : Len(t) > 50)[1]

\* C4: for every chunk text of at least 7 words, create_quality_fallback
\* returns a QAPair, and its answer is the first qualifying sentence of the
\* cleaned chunk
C4_FallbackAlwaysYieldsPair ==
    \A k \in 1..Len(synthCalls) :
        LET c == synthCalls[k]
        IN  (IsFallbackCall(c) /\ WordCountOf(c.arg) >= 7) =>
                /\ Len(c.out) = 1
                /\ c.out[1].answer = FirstQualifyingSentence(c.arg)

EndsWithQuestionMark(q) == Len(q) > 0 /\ q[Len(q)] = "?"

\* C5: every QAPair generate_qa_pair_rut5 or create_quality_fallback returns
\* for a chunk, and every flashcard process_pdf builds, has a question ending
\* in '?' and an answer longer than the minimum (50 primary, 40 fallback)
C5_QuestionEndsAndAnswerLongEnough ==
    /\ \A c \in Range(extracted) :
          LET p == generate_qa_pair_rut5_of(c.text)
              f == create_quality_fallback_of(c.text)
          IN  /\ Len(p) > 0 => EndsWithQuestionMark(p[1].question) /\ Len(p[1].answer) > 50
              /\ Len(f) > 0 => EndsWithQuestionMark(f[1].question) /\ Len(f[1].answer) > 40
    /\ \A k \in 1..Len(synthCalls) :
          LET c == synthCalls[k]
          IN  Len(c.out) > 0 =>
                  /\ EndsWithQuestionMark(c.out[1].question)
                  /\ Len(c.out[1].answer) > (IF IsPrimaryCall(c) THEN 50 ELSE 40)
    /\ \A card \in Range(flashcards) \cup Range(result) :
          EndsWithQuestionMark(card.question) /\ Len(card.answer) > 40

\* process_pdf returned a flashcard of each synthesizer
C5_Witness ==
    /\ pc = "done"
    /\ \E j, k \in 1..Len(synthCalls) :
          /\ IsPrimaryCall(synthCalls[j]) /\ Len(synthCalls[j].out) = 1
          /\ IsFallbackCall(synthCalls[k]) /\ Len(synthCalls[k].out) = 1
          /\ \E a, b \in 1..Len(result) :
                /\ result[a].answer = synthCalls[j].out[1].answer
                /\ result[b].answer = synthCalls[k].out[1].answer

Ranked == pc \in {"loop", "fallback", "raised"} \/ (pc = "done" /\ Len(extracted) > 0)

Distance(c) == IF c.word_count >= 25 THEN c.word_count - 25 ELSE 25 - c.word_count

\* C6: the ranked list is in ascending order of |word_count - 25|, is a
\* permutation of the extracted list, and keeps the chunks of equal distance
\* in their original relative order
C6_RankingStableByDistance ==
    Ranked =>
        /\ Len(chunks) = Len(extracted)
        /\ \A k \in 1..(Len(chunks) - 1) : Distance(chunks[k]) <= Distance(chunks[k + 1])
        /\ \A d \in {Distance(c) : c \in Range(extracted) \cup Range(chunks)} :
              SelectSeq(chunks, LAMBDA c : Distance(c) = d)
                  = SelectSeq(extracted, LAMBDA c : Distance(c) = d)

\* the ranking moved a chunk and left two different chunks of equal distance
\* but different word_count next to each other
C6_Witness ==
    /\ Ranked
    /\ chunks # extracted
    /\ \E k \in 1..(Len(chunks) - 1) :
          /\ Distance(chunks[k]) = Distance(chunks[k + 1])
          /\ chunks[k].word_count # chunks[k + 1].word_count

PrimaryCalls == SelectSeq(synthCalls, IsPrimaryCall)

\* C7: at most 2 * max_cards chunks are handed to a synthesizer, they are the
\* first chunks in ranked order, no chunk is handed over once max_cards
\* flashcards exist, and the loop returns only with max_cards flashcards or
\* with the candidates exhausted
C7_CandidatesCappedAndInRankOrder ==
    /\ Len(PrimaryCalls) <= 2 * max_cards
    /\ Len(PrimaryCalls) <= Len(chunks)
    /\ \A k \in 1..Len(PrimaryCalls) : PrimaryCalls[k].arg = chunks[k].text
    /\ \A k \in 1..Len(synthCalls) :
          /\ synthCalls[k].cards < max_cards
          /\ IsFallbackCall(synthCalls[k]) =>
                /\ k > 1
                /\ IsPrimaryCall(synthCalls[k - 1])
                /\ synthCalls[k - 1].arg = synthCalls[k].arg
    /\ (pc = "done" /\ Len(extracted) > 0) =>
          \/ Len(result) = max_cards
          \/ Len(PrimaryCalls) = Len(chunks)
          \/ Len(PrimaryCalls) = 2 * max_cards

\* process_pdf stopped at max_cards flashcards with ranked chunks left over
C7_Witness ==
    /\ pc = "done"
    /\ max_cards >= 1
    /\ Len(result) = max_cards
    /\ Len(PrimaryCalls) = max_cards
    /\ Len(chunks) > 2 * max_cards

Unreadable(d) == d.unreadable \/ \E k \in 1..Len(d.pages) : d.pages[k].raises

NoPageText(d) == \A k \in 1..Len(d.pages) : Len(d.pages[k].text) = 0

\* C8: when the extraction raises or no page has text, process_pdf returns
\* the empty list, does not raise and calls no synthesizer
C8_UnreadableOrEmptyYieldsEmptyList ==
    (Started /\ (Unreadable(doc) \/ NoPageText(doc))) =>
        /\ synthCalls = <<>>
        /\ pc \in {"extract", "extracted", "done"}
        /\ pc = "done" => result = <<>>
        /\ pc \in {"extracted", "done"} => chunks = <<>>

\* process_pdf returned [] for a document whose later page raised after an
\* earlier page had been split into chunks
C8_Witness ==
    /\ pc = "done"
    /\ result = <<>>
    /\ \E k \in 1..Len(doc.pages) : doc.pages[k].raises
    /\ \E k \in 1..Len(splitCalls) : Len(splitCalls[k].out) > 0

\* C9: with max_cards = 0 process_pdf returns the empty list and calls
\* neither synthesizer
C9_ZeroMaxCardsCallsNoSynthesizer ==
    (Started /\ max_cards = 0) =>
        /\ synthCalls = <<>>
        /\ pc \notin {"fallback", "raised"}
        /\ flashcards = <<>>
        /\ pc = "done" => result = <<>>

\* process_pdf returned with max_cards = 0 for a document with ranked chunks
C9_Witness ==
    /\ pc = "done"
    /\ max_cards = 0
    /\ Len(chunks) > 0
    /\ result = <<>>

\* C10: generate_qa_pair_rut5 returns no QAPair for a chunk whose text holds
\* the token "import"
C10_ImportChunkHasNoPrimaryPair ==
    \A k \in 1..Len(synthCalls) :
        LET c == synthCalls[k]
        IN  (IsPrimaryCall(c) /\ \E w \in Range(SplitWords(c.arg)) : w = StrImport)
                => Len(c.out) = 0

\* C11: clean_text applied to its own result returns that result unchanged,
\* and on None or the empty string it returns the empty string
C11_CleanTextIdempotentAndTotal ==
    /\ Len(clean_out) = 2 => clean_out[2] = clean_out[1]
    /\ (Len(clean_out) >= 1 /\ (clean_arg.none \/ Len(clean_arg.text) = 0))
           => clean_out[1] = <<>>

\* clean_text was applied twice to a text with a removed control character,
\* a removed punctuation mark and whitespace, and the first call changed it
C11_Witness ==
    /\ Len(clean_out) = 2
    /\ ~clean_arg.none
    /\ \E i, j, k \in 1..Len(clean_arg.text) :
          /\ clean_arg.text[i] = "bel"
          /\ clean_arg.text[j] = "-"
          /\ IsSpace(clean_arg.text[k])
    /\ Len(clean_out[1]) > 0
    /\ clean_out[1] # clean_arg.text
\* the pages of the document (numbered as enumerate numbers them, from 0)
\* whose text yields a chunk with the given text
OriginPages(text) ==
    {i \in 0..(Len(doc.pages) - 1) :
        /\ ~doc.unreadable
        /\ ~doc.pages[i + 1].raises
        /\ \E k \in 1..Len(PageChunksOf(doc.pages[i + 1].text)) :
              PageChunksOf(doc.pages[i + 1].text)[k].text = text}

\* the text of the chunk the k-th flashcard was built from
CardChunkText(k) ==
    LET n == CHOOSE n \in 1..Len(synthCalls) :
                 synthCalls[n].cards = k - 1 /\ Len(synthCalls[n].out) > 0
    IN  synthCalls[n].arg

PageLabel(n) == <<"P","a","g","e"," ">> \o Decimal(n)

\* C12: every flashcard's source label is the label of a page its chunk came
\* from, the pages being numbered from 0 or from 1, the same for all
\* flashcards
C12_SourceLabelNamesOriginPage ==
    \E base \in {0, 1} :
        \A k \in 1..Len(flashcards) :
            \E i \in OriginPages(CardChunkText(k)) :
                flashcards[k].source = PageLabel(i + base)
\* request r is answered in this step
Answered(r) == uploads[r].pc # "done" /\ uploads'[r].pc = "done"

\* C13: under every interleaving of upload_pdf requests the stored PDFFile
\* rows have at most one row per user and file name, and a request whose
\* user already has a file of its name when it is answered is answered with
\* 400 and leaves the PDFFile and ActionHistory rows as they were
C13_OneRecordPerUserAndFilename ==
    /\ [](\A i, j \in 1..Len(pdf_files) :
            (pdf_files[i].filename = pdf_files[j].filename
                /\ pdf_files[i].user_id = pdf_files[j].user_id) => i = j)
    /\ [][\A r \in Requests :
            (Answered(r) /\ uploads'[r].filename # <<>> /\
             ExistingFile(pdf_files, uploads'[r].filename, uploads'[r].user_id))
                => /\ uploads'[r].status = 400
                   /\ pdf_files' = pdf_files
                   /\ action_history' = action_history]_vars
\* C14: a call of register with the email of a stored user is answered with
\* 400 and leaves the stored users as they were
C14_DuplicateEmailAnswered400 ==
    [][(register /\ Len(get_user_by_email(users, register_response'.email)) > 0)
          => (register_response'.status = 400 /\ users' = users)]_vars
====
